---- MODULE Spec2Model ----
(***************************************************************************)
(* The Task API of the to-do application (app/api/todos/route.ts): the     *)
(* four request handlers GET, POST, PATCH and DELETE over the Todo table.  *)
(* One action per handler; a request is handled as a whole, from the       *)
(* parsing of its body to the response (Spec, SpecTrack).  SpecConc has    *)
(* two requests in flight at once, each waiting for its store operation.   *)
(* SpecClient is the TodoList component of the same file in front of the   *)
(* server: its handlers send the requests and apply the responses to the   *)
(* `todos` they captured.                                                  *)
(***************************************************************************)
EXTENDS Integers, Sequences, FiniteSets, TLC

\* Number of ids the store issues (creates that succeed).
MaxTodos == 2
\* Last value of the store's clock (timestamps are 0..MaxClock).
MaxClock == 1
\* Number of actions the user of the component starts (see SpecClient).
MaxActions == 3

VARIABLES
    store,    \* the Todo table: a sequence of rows, in insertion order
    nextId,   \* the next id the store assigns
    now,      \* the store's clock
    req,      \* the request handled last
    resp,     \* the response to it
    calls,    \* number of store operations the handler issued for it
    threw,    \* whether a store operation it issued raised
    deleted,  \* the ids whose delete has succeeded
    track,    \* one Task followed from its creation (see SpecTrack)
    flight,   \* the requests in flight at once (see SpecConc)
    order,    \* the store operations of the requests in flight, as they ran
    base,     \* the table before the requests in flight
    todos,    \* TodoList: the list the component shows (see SpecClient)
    loading,  \* TodoList: a handleSubmit is in progress
    closure,  \* TodoList: the `todos` each handler in progress captured
    failed,   \* TodoList: a request of the component was answered not ok
    started   \* TodoList: number of actions the user has started

vars == <<store, nextId, now, req, resp, calls, threw, deleted, track,
          flight, order, base, todos, loading, closure, failed, started>>

----------------------------------------------------------------------------
\* JSON values of a request body.

Undef == [t |-> "undef", s |-> <<>>]       \* the field is not in the body
Null == [t |-> "null", s |-> <<>>]         \* JSON null
Num == [t |-> "num", s |-> <<>>]           \* a truthy value that is no string
Str(s) == [t |-> "str", s |-> s]

\* The titles requests carry: absent, null, a number, " ", " a", "b ".
TitleValues == {Undef, Null, Num, Str(<<" ">>), Str(<<" ", "a">>), Str(<<"b", " ">>)}

\* The descriptions requests carry: absent, null, a number, " ", " a".
DescriptionValues == {Undef, Null, Num, Str(<<" ">>), Str(<<" ", "a">>)}

\* `completed` in a body: absent, a boolean, or anything else (null, a string).
CUndef == [t |-> "undef", b |-> FALSE]
CBool(b) == [t |-> "bool", b |-> b]
COther == [t |-> "other", b |-> FALSE]
CompletedValues == {CUndef, CBool(TRUE), CBool(FALSE), COther}

\* An id in a request: absent, or the string of a number; 0 is the empty string.
NoId == [t |-> "undef", n |-> 0]
IdStr(n) == [t |-> "str", n |-> n]
IdValues == {NoId} \cup {IdStr(n) : n \in 0..MaxTodos}
TodoIds == {IdStr(n) : n \in 1..MaxTodos}

\* A timestamp in the data of a store call: absent or set.
TUndef == [t |-> "undef", n |-> 0]
TSet(n) == [t |-> "time", n |-> n]

----------------------------------------------------------------------------
\* String.prototype.trim

RECURSIVE TrimStart(_)
TrimStart(s) ==
    IF s # <<>> /\ Head(s) = " " THEN TrimStart(Tail(s)) ELSE s

RECURSIVE TrimEnd(_)
TrimEnd(s) ==
    IF s # <<>> /\ s[Len(s)] = " " THEN TrimEnd(SubSeq(s, 1, Len(s) - 1)) ELSE s

Trim(s) == TrimEnd(TrimStart(s))

\* !v for a body field
Falsy(v) == v.t \in {"undef", "null"} \/ (v.t = "str" /\ v.s = <<>>)

\* !id
FalsyId(id) == id.t = "undef" \/ (id.t = "str" /\ id.n = 0)

\* v.trim() raises a TypeError
TrimThrows(v) == v.t # "str"

\* v?.trim() raises a TypeError
OptTrimThrows(v) == v.t = "num"

\* description?.trim(), without the `|| null`
NormDescriptionNoNull(v) == IF v.t = "str" THEN Str(Trim(v.s)) ELSE Null

\* description?.trim() || null
NormDescription(v) ==
    IF v.t = "str" /\ Trim(v.s) # <<>> THEN Str(Trim(v.s)) ELSE Null

\* title, without the trim()
NormTitleRaw(v) == v.s

\* title.trim()
NormTitle(v) == Trim(v.s)

----------------------------------------------------------------------------
\* Requests.

Request(op, parsed, id, title, description, completed) ==
    [op |-> op, parsed |-> parsed, id |-> id, title |-> title,
     description |-> description, completed |-> completed]

\* A body request.json() cannot parse (empty, malformed, not an object).
BadBody(op) == Request(op, FALSE, NoId, Undef, Undef, CUndef)

GetRequests == {Request("GET", TRUE, NoId, Undef, Undef, CUndef)}

PostRequests ==
    {BadBody("POST")} \cup
    {Request("POST", TRUE, NoId, t, d, c) :
        t \in TitleValues, d \in DescriptionValues, c \in {CUndef, CBool(TRUE)}}

PatchRequests ==
    {BadBody("PATCH")} \cup
    {Request("PATCH", TRUE, i, t, d, c) :
        i \in {NoId} \cup TodoIds, t \in TitleValues, d \in DescriptionValues,
        c \in CompletedValues}

\* DELETE carries its id in the query string and has no body.
DeleteRequests == {Request("DELETE", TRUE, i, Undef, Undef, CUndef) : i \in IdValues}

NoRequest == Request("none", TRUE, NoId, Undef, Undef, CUndef)

----------------------------------------------------------------------------
\* Responses: NextResponse.json(body, {status}).

Json(status, error, message, body) ==
    [status |-> status, error |-> error, message |-> message, body |-> body]

Ok(status, body) == Json(status, "", "", body)
Error(status, error) == Json(status, error, "", <<>>)

BadRequest == 400
ServerError == 500
Created == 201
Success == 200

NoResponse == Json(0, "", "", <<>>)

----------------------------------------------------------------------------
\* The store: prisma.todo over the Todo table.

Ids(s) == {s[i].id : i \in DOMAIN s}

Row(s, id) == s[CHOOSE i \in DOMAIN s : s[i].id = id]

\* The record prisma.todo.create inserts: the store assigns the id, the
\* default of completed and both timestamps.
NewRow(data) ==
    [id |-> nextId,
     title |-> data.title,
     description |-> data.description,
     completed |-> IF data.completed.t = "bool" THEN data.completed.b ELSE FALSE,
     createdAt |-> now,
     updatedAt |-> now]

\* The record prisma.todo.update leaves: a field the data does not name keeps
\* its value, and updatedAt is refreshed.
ApplyUpdate(row, data) ==
    [id |-> row.id,
     title |-> IF data.title.t = "undef" THEN row.title ELSE data.title.s,
     description |->
        IF data.description.t = "undef" THEN row.description ELSE data.description,
     completed |-> IF data.completed.t = "undef" THEN row.completed ELSE data.completed.b,
     createdAt |-> IF data.createdAt.t = "undef" THEN row.createdAt ELSE data.createdAt.n,
     updatedAt |-> IF data.updatedAt.t = "undef" THEN now ELSE data.updatedAt.n]

\* The data is rejected by the client's validation of the field types.
InvalidData(data) == data.completed.t = "other"

Without(s, id) == SelectSeq(s, LAMBDA row : row.id # id)

Replace(s, row) == [i \in DOMAIN s |-> IF s[i].id = row.id THEN row ELSE s[i]]

\* The result of a store operation: it raised or not, the table it leaves and
\* the rows it returns.
Raised == [ok |-> FALSE, table |-> store, rows |-> <<>>]
Returned(table, rows) == [ok |-> TRUE, table |-> table, rows |-> rows]

\* prisma.todo.create({ data })
TodoCreate(data, fail) ==
    IF fail
    THEN Raised
    ELSE LET todo == NewRow(data) IN Returned(Append(store, todo), <<todo>>)

\* prisma.todo.upsert({ where: { id }, update: data, create: { id, ...data } }):
\* inserts the row when no row has the id
TodoUpsert(id, data, fail) ==
    IF fail \/ InvalidData(data)
    THEN Raised
    ELSE IF id \in Ids(store)
    THEN LET todo == ApplyUpdate(Row(store, id), data)
         IN  Returned(Replace(store, todo), <<todo>>)
    ELSE LET todo == ApplyUpdate([id |-> id, title |-> <<>>, description |-> Null,
                                  completed |-> FALSE, createdAt |-> now,
                                  updatedAt |-> now], data)
         IN  Returned(Append(store, todo), <<todo>>)

\* prisma.todo.update({ where: { id }, data }): raises when no row has the id
TodoUpdate(id, data, fail) ==
    IF fail \/ InvalidData(data) \/ id \notin Ids(store)
    THEN Raised
    ELSE LET todo == ApplyUpdate(Row(store, id), data)
         IN  Returned(Replace(store, todo), <<todo>>)

\* prisma.todo.deleteMany({ where: { id } }): deletes the rows that have the id,
\* none when there is none
TodoDeleteMany(id, fail) ==
    IF fail THEN Raised ELSE Returned(Without(store, id), <<>>)

\* prisma.todo.delete({ where: { id } }): raises when no row has the id
TodoDelete(id, fail) ==
    IF fail \/ id \notin Ids(store)
    THEN Raised
    ELSE Returned(Without(store, id), <<>>)

\* orderBy: { createdAt: 'asc' }
OrderByAsc(l) == \A i, j \in DOMAIN l : i < j => l[i].createdAt <= l[j].createdAt

\* orderBy: { createdAt: 'desc' }
OrderBy(l) == \A i, j \in DOMAIN l : i < j => l[i].createdAt >= l[j].createdAt

\* The results findMany may give: every row once, in the order asked for; rows
\* with the same createdAt come in the order the store happens to produce.
FindMany(s) ==
    {l \in {[i \in DOMAIN s |-> s[p[i]]] : p \in Permutations(DOMAIN s)} : OrderBy(l)}

----------------------------------------------------------------------------
\* The handlers.  Each computes the outcome of one request: the response, the
\* table the request leaves, and the store operations it issued.

Outcome(response, table, issued, raised) ==
    [resp |-> response, store |-> table, calls |-> issued, threw |-> raised]

\* A response that issues no store operation.
Early(response) == Outcome(response, store, 0, FALSE)

\* A catch block that reports the failure as 404.
CaughtNotFound(error) == Outcome(Error(404, error), store, 1, TRUE)

\* The catch block of a handler, after a store operation raised.
Caught(error) == Outcome(Error(ServerError, error), store, 1, TRUE)

\* if (!title)
TitleMissingNoTrim(title) == Falsy(title)

\* if (!title || title.trim() === '')
TitleMissing(title) == Falsy(title) \/ Trim(title.s) = <<>>

\* data: { title, description, completed } with the body's completed
CreateDataWithCompleted(r) ==
    [title |-> Trim(r.title.s),
     description |-> NormDescription(r.description),
     completed |-> r.completed]

\* data: { title: title.trim(), description: description?.trim() || null }
CreateData(r) ==
    [title |-> NormTitle(r.title),
     description |-> NormDescription(r.description),
     completed |-> CUndef]

\* updateData with the description key set whether the body has it or not
UpdateDataAllKeys(r) ==
    [completed |-> r.completed,
     title |-> IF r.title.t = "undef" THEN Undef ELSE Str(Trim(r.title.s)),
     description |-> NormDescription(r.description),
     createdAt |-> TUndef,
     updatedAt |-> TUndef]

\* updateData that also sets createdAt
UpdateDataTouchingCreatedAt(r) ==
    [completed |-> r.completed,
     title |-> IF r.title.t = "undef" THEN Undef ELSE Str(Trim(r.title.s)),
     description |->
        IF r.description.t = "undef" THEN Undef ELSE NormDescription(r.description),
     createdAt |-> TSet(now),
     updatedAt |-> TUndef]

\* updateData: a key for each of completed, title, description that the body has
UpdateData(r) ==
    [completed |-> r.completed,
     title |-> IF r.title.t = "undef" THEN Undef ELSE Str(NormTitle(r.title)),
     description |->
        IF r.description.t = "undef" THEN Undef ELSE NormDescription(r.description),
     createdAt |-> TUndef,
     updatedAt |-> TUndef]

\* GET - Fetch all todos
GetOutcome(r, fail, list) ==
    IF fail
    THEN Caught("Failed to fetch todos")
    ELSE Outcome(Ok(Success, list), store, 1, FALSE)

\* POST - Create a new todo
PostOutcome(r, fail) ==
    IF ~r.parsed
    THEN Early(Error(ServerError, "Failed to create todo"))
    ELSE IF Falsy(r.title)
    THEN Early(Error(BadRequest, "Title is required"))
    ELSE IF TrimThrows(r.title)
    THEN Early(Error(ServerError, "Failed to create todo"))
    ELSE IF TitleMissing(r.title)
    THEN Early(Error(BadRequest, "Title is required"))
    ELSE IF OptTrimThrows(r.description)
    THEN Early(Error(ServerError, "Failed to create todo"))
    ELSE LET todo == TodoCreate(CreateData(r), fail)
         IN  IF todo.ok
             THEN Outcome(Ok(Created, todo.rows), todo.table, 1, FALSE)
             ELSE Caught("Failed to create todo")

\* PATCH - Update a todo
PatchOutcome(r, fail) ==
    IF ~r.parsed
    THEN Early(Error(ServerError, "Failed to update todo"))
    ELSE IF FalsyId(r.id)
    THEN Early(Error(BadRequest, "Todo ID is required"))
    ELSE IF r.title.t # "undef" /\ TrimThrows(r.title)
    THEN Early(Error(ServerError, "Failed to update todo"))
    ELSE IF r.description.t # "undef" /\ OptTrimThrows(r.description)
    THEN Early(Error(ServerError, "Failed to update todo"))
    ELSE LET todo == TodoUpdate(r.id.n, UpdateData(r), fail)
         IN  IF todo.ok
             THEN Outcome(Ok(Success, todo.rows), todo.table, 1, FALSE)
             ELSE Caught("Failed to update todo")

\* DELETE - Delete a todo
DeleteOutcome(r, fail) ==
    IF FalsyId(r.id)
    THEN Early(Error(BadRequest, "Todo ID is required"))
    ELSE LET gone == TodoDelete(r.id.n, fail)
         IN  IF gone.ok
             THEN Outcome(Json(Success, "", "Todo deleted successfully", <<>>),
                          gone.table, 1, FALSE)
             ELSE Caught("Failed to delete todo")

----------------------------------------------------------------------------

\* The Task that is followed: the id and the values of its creation, then the
\* title of the one update that follows, until another request changes it.
NoTrack == [phase |-> "none", id |-> 0, title |-> <<>>, noDescription |-> FALSE,
            newTitle |-> <<>>]

\* No Task is followed and this response creates one: it may be followed.
Starts(tr, r, rs) == tr.phase = "none" /\ r.op = "POST" /\ rs.status = 201

Started(r, rs) ==
    [phase |-> "created", id |-> rs.body[1].id, title |-> Trim(r.title.s),
     noDescription |-> (r.description.t = "undef"), newTitle |-> <<>>]

\* The followed Task after a request that does not start following one.
TrackNext(tr, r, rs) ==
    IF tr.phase = "none"
    THEN tr
    ELSE IF r.op = "DELETE" /\ rs.status = 200 /\ r.id.n = tr.id
    THEN NoTrack
    ELSE IF r.op = "PATCH" /\ rs.status = 200 /\ r.id.n = tr.id
    THEN IF tr.phase = "created" /\ r.title.t = "str"
         THEN [tr EXCEPT !.phase = "updated", !.newTitle = Trim(r.title.s),
                         !.noDescription = FALSE]
         ELSE NoTrack
    ELSE tr

Follow ==
    IF Starts(track, req', resp')
    THEN track' \in {track, Started(req', resp')}
    ELSE track' = TrackNext(track, req', resp')

\* The handlers that run at once.
Procs == {1, 2}

\* A handler that is not running.
NoFlight == [pc |-> "idle", req |-> NoRequest, resp |-> NoResponse]

\* The state of the requests in flight.
conc == <<flight, order, base>>

\* The state of the TodoList component.
view == <<todos, loading, closure, failed, started>>

Init ==
    /\ store = <<>>
    /\ nextId = 1
    /\ now = 0
    /\ req = NoRequest
    /\ resp = NoResponse
    /\ calls = 0
    /\ threw = FALSE
    /\ deleted = {}
    /\ track = NoTrack
    /\ flight = [p \in Procs |-> NoFlight]
    /\ order = <<>>
    /\ base = <<>>
    /\ todos = <<>>
    /\ loading = FALSE
    /\ closure = [p \in Procs |-> <<>>]
    /\ failed = FALSE
    /\ started = 0

\* The request r is handled with outcome o.
Handle(r, o) ==
    /\ Len(o.store) <= Len(store) \/ nextId <= MaxTodos
    /\ req' = r
    /\ resp' = o.resp
    /\ store' = o.store
    /\ calls' = o.calls
    /\ threw' = o.threw
    /\ nextId' = IF Len(o.store) > Len(store) THEN nextId + 1 ELSE nextId
    /\ deleted' =
          IF r.op = "DELETE" /\ o.resp.status = Success
          THEN deleted \cup {r.id.n}
          ELSE deleted
    /\ UNCHANGED now

\* The server is between two requests.
Idle == req = NoRequest

GET ==
    /\ Idle
    /\ \E r \in GetRequests, fail \in BOOLEAN, list \in FindMany(store) :
           Handle(r, GetOutcome(r, fail, list))

POST ==
    /\ Idle
    /\ \E r \in PostRequests, fail \in BOOLEAN : Handle(r, PostOutcome(r, fail))

PATCH ==
    /\ Idle
    /\ \E r \in PatchRequests, fail \in BOOLEAN : Handle(r, PatchOutcome(r, fail))

DELETE ==
    /\ Idle
    /\ \E r \in DeleteRequests, fail \in BOOLEAN : Handle(r, DeleteOutcome(r, fail))

\* The response is returned and the server waits for the next request.
Reply ==
    /\ ~Idle
    /\ req' = NoRequest
    /\ resp' = NoResponse
    /\ calls' = 0
    /\ threw' = FALSE
    /\ UNCHANGED <<store, nextId, now, deleted>>

\* Time passes between requests.
Tick ==
    /\ Idle
    /\ now < MaxClock
    /\ now' = now + 1
    /\ UNCHANGED <<store, nextId, req, resp, calls, threw, deleted>>

Next ==
    \/ GET /\ UNCHANGED <<track, conc, view>>
    \/ POST /\ UNCHANGED <<track, conc, view>>
    \/ PATCH /\ UNCHANGED <<track, conc, view>>
    \/ DELETE /\ UNCHANGED <<track, conc, view>>
    \/ Reply /\ UNCHANGED <<track, conc, view>>
    \/ Tick /\ UNCHANGED <<track, conc, view>>

Spec == Init /\ [][Next]_vars

\* The same server, with one Task followed from its creation.
NextTrack ==
    \/ GET /\ UNCHANGED <<track, conc, view>>
    \/ POST /\ Follow /\ UNCHANGED <<conc, view>>
    \/ PATCH /\ Follow /\ UNCHANGED <<conc, view>>
    \/ DELETE /\ Follow /\ UNCHANGED <<conc, view>>
    \/ Reply /\ UNCHANGED <<track, conc, view>>
    \/ Tick /\ UNCHANGED <<track, conc, view>>

SpecTrack == Init /\ [][NextTrack]_vars

----------------------------------------------------------------------------
\* Requests in flight at once.  A handler runs from the arrival of its request
\* to its store call without reading the table; the store runs the calls it is
\* given one at a time, in the order they reach it.

\* The updates in flight: a well-typed value or none for each field, and the
\* two bodies that are answered without a store call.
ConcPatchRequests ==
    {BadBody("PATCH"), Request("PATCH", TRUE, NoId, Undef, Undef, CBool(TRUE))} \cup
    {Request("PATCH", TRUE, i, t, d, c) :
        i \in TodoIds,
        t \in {Undef, Str(<<" ", "a">>), Str(<<"b", " ">>)},
        d \in {Undef, Str(<<" ">>), Str(<<" ", "a">>)},
        c \in {CUndef, CBool(TRUE), CBool(FALSE)}}

ConcRequests == ConcPatchRequests \cup DeleteRequests

\* The tables the requests in flight find: Task 1, created at time 0 and
\* completed or not since.
ConcTables ==
    {<<[id |-> 1, title |-> <<"b">>, description |-> d, completed |-> c,
        createdAt |-> 0, updatedAt |-> 0]>> :
        d \in {Null, Str(<<"a">>)}, c \in BOOLEAN}

InitConc ==
    /\ store \in ConcTables
    /\ base = store
    /\ nextId = 2
    /\ now = 0
    /\ req = NoRequest
    /\ resp = NoResponse
    /\ calls = 0
    /\ threw = FALSE
    /\ deleted = {}
    /\ track = NoTrack
    /\ flight = [p \in Procs |-> NoFlight]
    /\ order = <<>>
    /\ todos = <<>>
    /\ loading = FALSE
    /\ closure = [p \in Procs |-> <<>>]
    /\ failed = FALSE
    /\ started = 0

\* The handler of the request r, with the outcome of its store call.
HandlerOutcome(r, fail) ==
    IF r.op = "POST"
    THEN PostOutcome(r, fail)
    ELSE IF r.op = "PATCH"
    THEN PatchOutcome(r, fail)
    ELSE DeleteOutcome(r, fail)

\* The handler answers r before any store call.
AnswersEarly(r) == HandlerOutcome(r, FALSE).calls = 0

\* A request arrives and its handler runs to its store call, or to its
\* response when it issues none.
Arrive ==
    \E p \in Procs, r \in ConcRequests :
        /\ flight[p].pc = "idle"
        /\ flight' =
              [flight EXCEPT ![p] =
                  IF AnswersEarly(r)
                  THEN [pc |-> "done", req |-> r, resp |-> HandlerOutcome(r, FALSE).resp]
                  ELSE [pc |-> "calling", req |-> r, resp |-> NoResponse]]
        /\ UNCHANGED <<store, nextId, now, req, resp, calls, threw, deleted,
                       track, order, base, view>>

\* The store runs the call of one handler, whole, and the handler responds.
Call ==
    \E p \in Procs, fail \in BOOLEAN :
        /\ flight[p].pc = "calling"
        /\ LET o == HandlerOutcome(flight[p].req, fail)
           IN  /\ store' = o.store
               /\ nextId' = IF Len(o.store) > Len(store) THEN nextId + 1 ELSE nextId
               /\ flight' = [flight EXCEPT ![p].pc = "done", ![p].resp = o.resp]
        /\ order' =
              Append(order,
                     [p |-> p, at |-> now,
                      during |-> {q \in Procs \ {p} : flight[q].pc = "calling"}])
        /\ UNCHANGED <<now, req, resp, calls, threw, deleted, track, base, view>>

NextConc ==
    \/ Arrive
    \/ Call
    \/ Tick /\ UNCHANGED <<track, conc, view>>

SpecConc == InitConc /\ [][NextConc]_vars

----------------------------------------------------------------------------
\* The TodoList component, the only client of the server.  A handler sends its
\* request, waits for the response and then sets `todos` from the `todos` of
\* the render it was started in.  The Tasks of a response body are the rows
\* the handler returned, field by field.

\* What the user types into the title and description inputs.
TitleInputs == {<<" ", "a">>, <<" ">>}
DescriptionInputs == {<<>>, <<" ", "a">>}

\* What the user leaves in the inputs of an edit.
EditTitleInputs == {<<"b", " ">>, <<" ">>}
EditDescriptionInputs == {<<>>, <<" ", "a">>}

\* The component mounts: useEffect starts fetchTodos, on a server whose table
\* is empty or holds one Task.
InitClient ==
    /\ store \in {<<>>} \cup ConcTables
    /\ nextId = Len(store) + 1
    /\ now = 0
    /\ req = NoRequest
    /\ resp = NoResponse
    /\ calls = 0
    /\ threw = FALSE
    /\ deleted = {}
    /\ track = NoTrack
    /\ flight =
          [p \in Procs |->
              IF p = 1
              THEN [pc |-> "calling", req |-> CHOOSE r \in GetRequests : TRUE,
                    resp |-> NoResponse]
              ELSE NoFlight]
    /\ order = <<>>
    /\ base = <<>>
    /\ todos = <<>>
    /\ loading = FALSE
    /\ closure = [p \in Procs |-> <<>>]
    /\ failed = FALSE
    /\ started = 0

\* fetch(...): the handler p sends r and waits, holding the todos of its render.
Fetch(p, r) ==
    /\ flight[p].pc = "idle"
    /\ started < MaxActions
    /\ started' = started + 1
    /\ flight' = [flight EXCEPT ![p] = [pc |-> "calling", req |-> r, resp |-> NoResponse]]
    /\ closure' = [closure EXCEPT ![p] = todos]
    /\ UNCHANGED <<store, nextId, now, req, resp, calls, threw, deleted, track,
                   order, base, todos, failed>>

\* handleSubmit, to its fetch; the submit button is disabled while loading.
handleSubmit ==
    /\ ~loading
    /\ nextId <= MaxTodos
    /\ \E p \in Procs, title \in TitleInputs, description \in DescriptionInputs :
           /\ Trim(title) # <<>>
           /\ Fetch(p, Request("POST", TRUE, NoId, Str(title), Str(description), CUndef))
    /\ loading' = TRUE

\* toggleComplete(todo.id, todo.completed) of a Task shown, to its fetch
toggleComplete ==
    /\ \E p \in Procs, i \in DOMAIN todos :
           Fetch(p, Request("PATCH", TRUE, IdStr(todos[i].id), Undef, Undef,
                            CBool(~todos[i].completed)))
    /\ UNCHANGED loading

\* deleteTodo(todo.id) of a Task shown, confirmed, to its fetch
deleteTodo ==
    /\ \E p \in Procs, i \in DOMAIN todos :
           Fetch(p, Request("DELETE", TRUE, IdStr(todos[i].id), Undef, Undef, CUndef))
    /\ UNCHANGED loading

\* saveEdit(todo.id) of a Task shown, with the texts of the edit inputs, to its
\* fetch
saveEdit ==
    /\ \E p \in Procs, i \in DOMAIN todos, editTitle \in EditTitleInputs,
          editDescription \in EditDescriptionInputs :
           /\ Trim(editTitle) # <<>>
           /\ Fetch(p, Request("PATCH", TRUE, IdStr(todos[i].id), Str(editTitle),
                               Str(editDescription), CUndef))
    /\ UNCHANGED loading

\* The server handles the request of p with the outcome o.
Served(p, o) ==
    /\ store' = o.store
    /\ nextId' = IF Len(o.store) > Len(store) THEN nextId + 1 ELSE nextId
    /\ flight' = [flight EXCEPT ![p].pc = "done", ![p].resp = o.resp]
    /\ UNCHANGED <<now, req, resp, calls, threw, deleted, track, order, base, view>>

\* The server handles one of the requests the component has sent.
Serve ==
    \E p \in Procs, fail \in BOOLEAN :
        /\ flight[p].pc = "calling"
        /\ IF flight[p].req.op = "GET"
           THEN \E list \in FindMany(store) :
                    Served(p, GetOutcome(flight[p].req, fail, list))
           ELSE Served(p, HandlerOutcome(flight[p].req, fail))

\* response.ok
ResponseOk(rs) == rs.status \in 200..299

\* todos.map(todo => todo.id === id ? updatedTodo : todo)
MapTodos(l, id, updatedTodo) ==
    [i \in DOMAIN l |-> IF l[i].id = id THEN updatedTodo ELSE l[i]]

\* todos.filter(todo => todo.id !== id)
FilterTodos(l, id) == SelectSeq(l, LAMBDA todo : todo.id # id)

\* The list a handler sets after its response: fetchTodos sets the body it got
\* (an error object lists nothing), the others set nothing unless response.ok.
SetTodos(r, rs, captured) ==
    IF r.op = "GET"
    THEN rs.body
    ELSE IF ~ResponseOk(rs)
    THEN todos
    ELSE IF r.op = "POST"
    THEN <<rs.body[1]>> \o captured
    ELSE IF r.op = "PATCH"
    THEN MapTodos(captured, r.id.n, rs.body[1])
    ELSE FilterTodos(captured, r.id.n)

\* A handler gets its response and runs to its end.
Resume ==
    \E p \in Procs :
        /\ flight[p].pc = "done"
        /\ todos' = SetTodos(flight[p].req, flight[p].resp, closure[p])
        /\ loading' = IF flight[p].req.op = "POST" THEN FALSE ELSE loading
        /\ failed' = (failed \/ ~ResponseOk(flight[p].resp))
        /\ flight' = [flight EXCEPT ![p] = NoFlight]
        /\ closure' = [closure EXCEPT ![p] = <<>>]
        /\ UNCHANGED <<store, nextId, now, req, resp, calls, threw, deleted,
                       track, order, base, started>>

NextClient ==
    \/ handleSubmit
    \/ toggleComplete
    \/ deleteTodo
    \/ saveEdit
    \/ Serve
    \/ Resume
    \/ Tick /\ UNCHANGED <<track, conc, view>>

SpecClient == InitClient /\ [][NextClient]_vars

----------------------------------------------------------------------------
\* What the properties below speak of.

\* The position of the Task with this id in a list.
Pos(l, id) == CHOOSE i \in DOMAIN l : l[i].id = id

\* The list holds every row of the table exactly once, and nothing else.
ListsEach(l, s) ==
    /\ Len(l) = Len(s)
    /\ \A i \in DOMAIN s : Cardinality({j \in DOMAIN l : l[j] = s[i]}) = 1

\* The message of the server fault of each operation.
FaultMessage(op) ==
    CASE op = "GET" -> "Failed to fetch todos"
      [] op = "POST" -> "Failed to create todo"
      [] op = "PATCH" -> "Failed to update todo"
      [] op = "DELETE" -> "Failed to delete todo"
      [] OTHER -> ""

\* A string field that is empty once trimmed.
Blank(v) == v.t = "str" /\ Trim(v.s) = <<>>

\* The request lacks its required field: the title of a create (absent, null
\* or blank), the id of an update or of a delete.
LacksRequired(r) ==
    /\ r.parsed
    /\ \/ r.op = "POST" /\ (r.title.t \in {"undef", "null"} \/ Blank(r.title))
       \/ r.op \in {"PATCH", "DELETE"} /\ (r.id.t = "undef" \/ r.id.n = 0)

RequiredMessage(op) == IF op = "POST" THEN "Title is required" ELSE "Todo ID is required"

ListOk == req.op = "GET" /\ resp.status = 200

----------------------------------------------------------------------------
\* C1: in every stored state the title of every Task is non-empty after
\* trimming.  An update whose title is blank stores the empty title.
TitleNeverBlank == \A i \in DOMAIN store : Trim(store[i].title) # <<>>

PatchOk == req'.op = "PATCH" /\ resp'.status = 200

PatchFrame ==
    LET id == req'.id.n
        old == Row(store, id)
        new == Row(store', id)
    IN  /\ id \in Ids(store)
        /\ Len(store') = Len(store)
        /\ \A i \in DOMAIN store : store[i].id = store'[i].id
        /\ \A i \in DOMAIN store : store[i].id # id => store'[i] = store[i]
        /\ new.createdAt = old.createdAt
        /\ new.completed =
              IF req'.completed.t = "undef" THEN old.completed ELSE req'.completed.b
        /\ req'.title.t = "undef" => new.title = old.title
        /\ req'.description.t = "undef" => new.description = old.description
        /\ (req'.description.t = "null" \/ Blank(req'.description)) =>
              new.description = Null

\* C3 as claimed: a successful update changes only the fields the request
\* sends (an unsent description is kept, a description sent null or blank
\* becomes absent), never id or createdAt, and updatedAt advances.
UpdateChangesOnlySentAndAdvances ==
    [][PatchOk =>
          /\ PatchFrame
          /\ Row(store', req'.id.n).updatedAt > Row(store, req'.id.n).updatedAt]_vars

\* C3 as amended: a successful update changes only the fields the request
\* sends (an unsent description is kept, a description sent null or blank
\* becomes absent), never id or createdAt, and updatedAt becomes the time of
\* the update: it never decreases, and it advances whenever the clock has
\* moved since the Task was last written.
UpdateChangesOnlySent ==
    [][PatchOk =>
          /\ PatchFrame
          /\ Row(store', req'.id.n).updatedAt = now
          /\ Row(store', req'.id.n).updatedAt >= Row(store, req'.id.n).updatedAt
          /\ now > Row(store, req'.id.n).updatedAt =>
                Row(store', req'.id.n).updatedAt > Row(store, req'.id.n).updatedAt]_vars

\* An update that sent only `completed` succeeded on a Task that has a
\* description, at a later time than its creation.
UpdateOnlyCompletedWitness ==
    /\ req.op = "PATCH"
    /\ resp.status = 200
    /\ req.title = Undef
    /\ req.description = Undef
    /\ req.completed = CBool(TRUE)
    /\ LET new == Row(store, req.id.n)
       IN  /\ new.completed
           /\ new.description # Null
           /\ new.title # <<>>
           /\ new.updatedAt > new.createdAt

\* C4: once the delete of an id has succeeded no row has the id again, no
\* list shows it, no create is given it, and every later update or delete of
\* it is answered by the 500 of its operation and leaves the table as it was.
DeletedStaysGone ==
    [][/\ \A id \in deleted' : id \notin Ids(store')
       /\ (req'.op = "GET" /\ resp'.status = 200) =>
             \A i \in DOMAIN resp'.body : resp'.body[i].id \notin deleted
       /\ resp'.status = 201 => resp'.body[1].id \notin deleted \cup Ids(store)
       /\ (req'.op \in {"PATCH", "DELETE"} /\ req'.id.t = "str" /\ req'.id.n \in deleted) =>
             /\ resp'.status = 500
             /\ resp'.error = FaultMessage(req'.op)
             /\ store' = store]_vars

\* An update of a deleted id was answered 500 while another Task is stored.
UpdateOfDeletedWitness ==
    /\ req.op = "PATCH"
    /\ req.id.t = "str"
    /\ req.id.n \in deleted
    /\ req.title = Str(<<" ", "a">>)
    /\ calls = 1
    /\ resp.status = 500
    /\ store # <<>>

\* C5 as claimed: a list holds every stored Task once, and of two Tasks it
\* shows the one created later first, also when both have the same createdAt.
ListShowsLaterCreatedFirst ==
    ListOk =>
        /\ ListsEach(resp.body, store)
        /\ \A i, j \in DOMAIN store :
              i < j => Pos(resp.body, store[j].id) < Pos(resp.body, store[i].id)

\* C5 as amended: a list holds every stored Task once, by createdAt
\* descending; of two Tasks it shows the one created later first when its
\* createdAt is the later one.
ListNewestFirst ==
    ListOk =>
        /\ ListsEach(resp.body, store)
        /\ \A i, j \in DOMAIN resp.body :
              i < j => resp.body[i].createdAt >= resp.body[j].createdAt
        /\ \A i, j \in DOMAIN store :
              (i < j /\ store[j].createdAt > store[i].createdAt) =>
                  Pos(resp.body, store[j].id) < Pos(resp.body, store[i].id)

\* A list of two Tasks created at different times.
ListOfTwoWitness ==
    /\ ListOk
    /\ Len(store) = 2
    /\ store[2].createdAt > store[1].createdAt
    /\ resp.body = <<store[2], store[1]>>

\* A create whose title is a string that is non-empty after trimming, whose
\* description is absent, null or a string, and whose store operation does not
\* raise, is answered 201 and adds one record: a fresh id, the trimmed title,
\* completed false whatever the body says, description null when none was sent.
CreateEffect ==
    (/\ req'.op = "POST"
     /\ req'.parsed
     /\ req'.title.t = "str"
     /\ ~Blank(req'.title)
     /\ req'.description.t # "num"
     /\ ~threw') =>
        /\ resp'.status = 201
        /\ Len(resp'.body) = 1
        /\ LET new == resp'.body[1]
           IN  /\ store' = Append(store, new)
               /\ new.id \notin Ids(store) \cup deleted
               /\ new.title = Trim(req'.title.s)
               /\ new.completed = FALSE
               /\ req'.description.t = "undef" => new.description = Null

\* The list shows the followed Task once, with the values of its creation.
ListedAsCreated ==
    /\ Cardinality({j \in DOMAIN resp.body : resp.body[j].id = track.id}) = 1
    /\ LET row == resp.body[Pos(resp.body, track.id)]
       IN  /\ row.title = track.title
           /\ row.completed = FALSE
           /\ track.noDescription => row.description = Null

\* C6 as claimed: a create with a title that is non-empty after trimming is
\* answered 201 and adds one record with a fresh id, the trimmed title,
\* completed false and description null when none was sent, and a later list
\* shows the Task with these values as long as no delete of its id has come
\* between.
CreatedTaskListedUntilDeleted ==
    [][/\ CreateEffect
       /\ (req'.op = "GET" /\ resp'.status = 200 /\ track'.phase # "none") =>
             ListedAsCreated']_vars

\* C6 as amended: a create with a title that is non-empty after trimming
\* (whose store operation succeeds) is answered 201 and adds one record with a
\* fresh id, the trimmed title, completed false and description null when none
\* was sent, and a later list shows the Task with these values as long as no
\* delete and no successful update of its id has come between.
CreatedTaskListedUntilChanged ==
    [][/\ CreateEffect
       /\ (req'.op = "GET" /\ resp'.status = 200 /\ track'.phase = "created") =>
             ListedAsCreated']_vars

\* A list after the creation of a Task without a description, with another
\* Task in the table.
CreatedTaskListedWitness ==
    /\ ListOk
    /\ track.phase = "created"
    /\ track.noDescription
    /\ track.title = <<"a">>
    /\ Len(resp.body) = 2

\* C7: the description of every stored Task is null or a string that is
\* non-empty after trimming; a create whose description is absent, null or
\* blank and an update whose description is sent null or blank store null.
DescriptionNullOrNonBlank ==
    /\ \A i \in DOMAIN store :
          \/ store[i].description = Null
          \/ store[i].description.t = "str" /\ Trim(store[i].description.s) # <<>>
    /\ (/\ req.op = "POST"
        /\ resp.status = 201
        /\ (req.description.t \in {"undef", "null"} \/ Blank(req.description))) =>
           Row(store, resp.body[1].id).description = Null
    /\ (/\ req.op = "PATCH"
        /\ resp.status = 200
        /\ (req.description.t = "null" \/ Blank(req.description))) =>
           Row(store, req.id.n).description = Null

\* An update with the description " " succeeded on a Task that had one.
BlankDescriptionWitness ==
    /\ req.op = "PATCH"
    /\ resp.status = 200
    /\ req.description = Str(<<" ">>)
    /\ Row(store, req.id.n).description = Null
    /\ Row(store, req.id.n).updatedAt > Row(store, req.id.n).createdAt

\* C8: after the creation of a Task and one successful update of its id with
\* a title, and no other change of the Task since, a list shows the Task once,
\* under its id, with the trimmed title of the update and not the title of
\* its creation.
RoundTrip ==
    (ListOk /\ track.phase = "updated") =>
        /\ Cardinality({j \in DOMAIN resp.body : resp.body[j].id = track.id}) = 1
        /\ LET row == resp.body[Pos(resp.body, track.id)]
           IN  /\ row.title = track.newTitle
               /\ track.newTitle # track.title => row.title # track.title

\* A list after the title "a" of a Task was updated to "b ".
RoundTripWitness ==
    /\ ListOk
    /\ track.phase = "updated"
    /\ track.title = <<"a">>
    /\ track.newTitle = <<"b">>
    /\ Len(resp.body) = 2

\* C9: a store operation that raises gives the 500 of its operation, never
\* another status; a handler issues at most one store operation; a request
\* that is answered with an error leaves the table as it was; an update or a
\* delete of an id that no row has raises.
StoreFailureIsServerFault ==
    [][/\ calls' \in {0, 1}
       /\ threw' =>
             /\ calls' = 1
             /\ resp'.status = 500
             /\ resp'.error = FaultMessage(req'.op)
       /\ resp'.status >= 400 => (store' = store /\ nextId' = nextId)
       /\ (/\ req'.op \in {"PATCH", "DELETE"}
           /\ calls' = 1
           /\ req'.id.n \notin Ids(store)) =>
             (threw' /\ resp'.status = 500)]_vars

\* A delete of an id that no row has was answered 500.
StoreFailureWitness ==
    /\ req.op = "DELETE"
    /\ threw
    /\ calls = 1
    /\ resp.status = 500
    /\ resp.error = "Failed to delete todo"
    /\ req.id.n \notin Ids(store)
    /\ store # <<>>

\* C10: updatedAt >= createdAt for every stored Task; createdAt is the time
\* of the creation and never changes; updatedAt is createdAt at the creation,
\* never decreases, and is the time of the update after a successful update.
TimestampsOrdered ==
    [][/\ \A i \in DOMAIN store' : store'[i].updatedAt >= store'[i].createdAt
       /\ \A id \in Ids(store) \cap Ids(store') :
             /\ Row(store', id).createdAt = Row(store, id).createdAt
             /\ Row(store', id).updatedAt >= Row(store, id).updatedAt
       /\ resp'.status = 201 =>
             /\ resp'.body[1].createdAt = now
             /\ resp'.body[1].updatedAt = now
             /\ Row(store', resp'.body[1].id) = resp'.body[1]
       /\ (req'.op = "PATCH" /\ resp'.status = 200) =>
             Row(store', req'.id.n).updatedAt = now]_vars

\* A Task that was updated after the clock had moved.
TimestampsWitness ==
    /\ req.op = "PATCH"
    /\ resp.status = 200
    /\ Row(store, req.id.n).createdAt = 0
    /\ Row(store, req.id.n).updatedAt = 1

----------------------------------------------------------------------------
\* Requests in flight at once (SpecConc).

\* The handler p has responded with the status.
Done(p, status) == flight[p].pc = "done" /\ flight[p].resp.status = status

\* The handler p has responded to a request of the kind op for the id.
DoneOn(p, op, id) ==
    /\ flight[p].pc = "done"
    /\ flight[p].req.op = op
    /\ flight[p].req.id = IdStr(id)

\* The call of p ran before the call of q.
Before(p, q) ==
    \E i, j \in DOMAIN order : i < j /\ order[i].p = p /\ order[j].p = q

\* The time of the call of p.
CalledAt(p) == order[CHOOSE i \in DOMAIN order : order[i].p = p].at

\* The value the body of r sends for a field, as it is stored.
SentTitle(r) == Trim(r.title.s)
SentDescription(r) ==
    IF r.description.t = "str" /\ Trim(r.description.s) # <<>>
    THEN Str(Trim(r.description.s))
    ELSE Null

\* The Task old after the update r1 and then the update r2, the later at time t.
OneAfterTheOther(old, r1, r2, t) ==
    [id |-> old.id,
     title |->
        IF r2.title.t # "undef" THEN SentTitle(r2)
        ELSE IF r1.title.t # "undef" THEN SentTitle(r1)
        ELSE old.title,
     description |->
        IF r2.description.t # "undef" THEN SentDescription(r2)
        ELSE IF r1.description.t # "undef" THEN SentDescription(r1)
        ELSE old.description,
     completed |->
        IF r2.completed.t # "undef" THEN r2.completed.b
        ELSE IF r1.completed.t # "undef" THEN r1.completed.b
        ELSE old.completed,
     createdAt |-> old.createdAt,
     updatedAt |-> t]

\* Two updates of the same existing Task that both succeeded leave the Task as
\* the two leave it one after the other, in the order of their store calls.
TwoUpdatesInCallOrder ==
    \A p, q \in Procs, id \in 1..MaxTodos :
        (/\ DoneOn(p, "PATCH", id) /\ Done(p, Success)
         /\ DoneOn(q, "PATCH", id) /\ Done(q, Success)
         /\ id \in Ids(base)
         /\ Before(p, q))
        => /\ id \in Ids(store)
           /\ Len(store) = Len(base)
           /\ Row(store, id) =
                 OneAfterTheOther(Row(base, id), flight[p].req, flight[q].req,
                                  CalledAt(q))

\* An update that reaches the store after the delete of its Task has succeeded
\* fails with the 500 response, one that succeeded ran before the delete, and
\* the Task is gone either way.
UpdateNeverRecreates ==
    \A p, q \in Procs, id \in 1..MaxTodos :
        (/\ DoneOn(q, "DELETE", id) /\ Done(q, Success)
         /\ id \in Ids(base))
        => /\ id \notin Ids(store)
           /\ (DoneOn(p, "PATCH", id) /\ Before(q, p))
                 => /\ Done(p, ServerError)
                    /\ flight[p].resp.error = "Failed to update todo"
           /\ (DoneOn(p, "PATCH", id) /\ Done(p, Success)) => Before(p, q)

\* C11: requests in flight at once interleave at their store calls and the last
\* write wins.  Two updates of the same existing Task that both succeed leave
\* it as the two applied one after the other in the order of their store calls:
\* a field both send has the value of the later call, a field one sends has
\* that value, a field neither sends keeps its value.  An update in flight with
\* a delete of the same Task that succeeds is applied before the delete or
\* fails with the 500 response, and the Task is not in the table afterwards.
LastWriteWins == TwoUpdatesInCallOrder /\ UpdateNeverRecreates

\* Two updates of Task 1 were waiting for the store at once, both succeeded,
\* both sent a title and only the earlier sent a description.
TwoUpdatesAtOnce ==
    \E p, q \in Procs :
        /\ DoneOn(p, "PATCH", 1) /\ Done(p, Success)
        /\ DoneOn(q, "PATCH", 1) /\ Done(q, Success)
        /\ Before(p, q)
        /\ order[1].during = {q}
        /\ flight[p].req.title = Str(<<" ", "a">>)
        /\ flight[q].req.title = Str(<<"b", " ">>)
        /\ flight[p].req.description = Str(<<" ", "a">>)
        /\ flight[q].req.description = Undef

\* An update of Task 1 was waiting for the store when the delete of Task 1
\* ran, and then failed.
UpdateAfterDelete ==
    \E p, q \in Procs :
        /\ DoneOn(q, "DELETE", 1) /\ Done(q, Success)
        /\ DoneOn(p, "PATCH", 1) /\ Done(p, ServerError)
        /\ order[1].p = q
        /\ order[1].during = {p}
        /\ Len(order) = 2

----------------------------------------------------------------------------
\* The TodoList component (SpecClient).

\* No handler of the component is in progress.
Settled == \A p \in Procs : flight[p].pc = "idle"

\* C12: once the initial fetch and every request the component issued have
\* completed successfully, `todos` holds exactly the Tasks of the table, with
\* their field values, in an order a list request may return -- also when an
\* action was started while an earlier request was in flight.
ViewShowsStore == (Settled /\ ~failed) => todos \in FindMany(store)

====
